---- MODULE Spec2Model ----
(***************************************************************************)
(* Model of the fixed-tick simulation of src/src/main.rs: the systems of   *)
(* UpdatePlugin (control_player, gravitate, move_bodies,                   *)
(* handle_collisions, camera_follow, player_effects, project_transforms),  *)
(* the order constraints the plugin declares between them, and collide.    *)
(*                                                                         *)
(* Arithmetic.  The program computes in f32.  The model computes in fixed  *)
(* point: an f32 value v is the integer v * One.  Sums, differences and    *)
(* comparisons are exact; a product or quotient of two values is rounded   *)
(* to the nearest unit (Mul, Div), as an f32 operation rounds its result.  *)
(***************************************************************************)
EXTENDS Integers, Sequences, FiniteSets

\* ------------------------------------------------------------------ numbers

\* Units per 1.0 of the program's f32 values.
One == 1000

Abs(a) == IF a < 0 THEN -a ELSE a

\* x / d for d > 0, rounded to the nearest integer.
RoundDiv(x, d) == (2 * x + d) \div (2 * d)

\* The product a * b of two fixed-point values.
Mul(a, b) == RoundDiv(a * b, One)

\* The quotient a / b of two fixed-point values, b > 0.
Div(a, b) == RoundDiv(a * One, b)

\* Program constants (main.rs:9-15), in units.
PLAYER_SPEED == 5000
PLAYER_ACCEL == 50
PLAYER_DECEL == 80
PLAYER_JUMP_STRENGTH == 8000
GRAVITY == -200
SQUASH_SNAPPINESS == 50

\* Literals of the systems, in units.
LANDING_NUDGE == 10000      \* p_position.0.y -= 10.0
CAMERA_DAMPING == 40        \* let damping = 0.04
CAMERA_BLEND == 100         \* camera_vel.0.lerp(new_velocity, 0.1)
CAMERA_DEADZONE == 100      \* if distance > 0.1
MAX_LEAN == -300            \* flerp(0., -0.3, ...)

\* ------------------------------------------------------------------ Vec2

Vec2(x, y) == [x |-> x, y |-> y]
ZERO == Vec2(0, 0)
VAdd(a, b) == Vec2(a.x + b.x, a.y + b.y)
VSub(a, b) == Vec2(a.x - b.x, a.y - b.y)
\* v / 2.0
VHalf(v) == Vec2(RoundDiv(v.x, 2), RoundDiv(v.y, 2))
\* v * s for an f32 s
VScale(v, s) == Vec2(Mul(v.x, s), Mul(v.y, s))

\* A variant of flerp that blends toward a + b instead of b.
FlerpNoDifference(a, b, t) == a + Mul(t, b)

\* fn flerp(a, b, t) = a + t * (b - a)
flerp(a, b, t) == a + Mul(t, b - a)

\* fn vlerp(a, b, t)
vlerp(a, b, t) == Vec2(flerp(a.x, b.x, t), flerp(a.y, b.y, t))

\* Vec2::lerp(self, rhs, s) = self + (rhs - self) * s
Vec2Lerp(a, b, s) == VAdd(a, VScale(VSub(b, a), s))

\* direction.length() > 0.1, decided without forming squares of large numbers.
LengthExceeds(v, d) ==
    \/ Abs(v.x) > d
    \/ Abs(v.y) > d
    \/ v.x * v.x + v.y * v.y > d * d

\* ------------------------------------------------------------------ Aabb2d

\* Aabb2d::new(center, half_size)
Aabb2dNew(center, half_size) ==
    [min |-> VSub(center, half_size), max |-> VAdd(center, half_size)]

\* BoundingVolume::center and half_size
Center(b) == Vec2((b.min.x + b.max.x) \div 2, (b.min.y + b.max.y) \div 2)
HalfSize(b) == Vec2((b.max.x - b.min.x) \div 2, (b.max.y - b.min.y) \div 2)

Clamp(v, lo, hi) == IF v < lo THEN lo ELSE IF v > hi THEN hi ELSE v

\* Aabb2d::closest_point: the point clamped into the box.
ClosestPoint(b, p) == Vec2(Clamp(p.x, b.min.x, b.max.x), Clamp(p.y, b.min.y, b.max.y))

\* A variant of the overlap test that does not count touching boxes.
IntersectsStrict(a, b) ==
    /\ a.min.x < b.max.x /\ a.max.x > b.min.x
    /\ a.min.y < b.max.y /\ a.max.y > b.min.y

\* IntersectsVolume for Aabb2d: inclusive on both axes, touching boxes intersect.
Intersects(a, b) ==
    /\ a.min.x <= b.max.x /\ a.max.x >= b.min.x
    /\ a.min.y <= b.max.y /\ a.max.y >= b.min.y

\* ------------------------------------------------------------------ collide

\* Option::None of collide.
NoContact == [side |-> "None", clip_amount |-> ZERO]

\* The side and clip_amount collide chooses for intersecting boxes.
Classify(half, offset) ==
    IF Abs(offset.x) + half.y > Abs(offset.y) + half.x
      THEN IF offset.x > 0
             THEN [side |-> "Left", clip_amount |-> VSub(half, offset)]
             ELSE [side |-> "Right", clip_amount |-> VAdd(half, offset)]
      ELSE IF offset.y < 0
             THEN [side |-> "Top", clip_amount |-> VAdd(half, offset)]
             ELSE [side |-> "Bottom", clip_amount |-> VSub(half, offset)]

\* fn collide(body1, body2) -> Option<(Collision, Vec2)>
collide(body1, body2) ==
    IF ~Intersects(body1, body2)
      THEN NoContact
      ELSE LET closest_point == ClosestPoint(body2, Center(body1))
               offset == VSub(Center(body1), closest_point)
           IN  Classify(HalfSize(body1), offset)

\* ------------------------------------------------------------------ world

\* spawn_player: let shape = Vec2::new(60., 100.)
PlayerShape == Vec2(60 * One, 100 * One)

\* init_world: the two blocks, in creation order.
WorldData ==
    << [position |-> Vec2(0, -300 * One), shape |-> Vec2(400 * One, 50 * One)],
       [position |-> Vec2(225 * One, -250 * One), shape |-> Vec2(50 * One, 50 * One)] >>

\* The components of the Player and Camera entities after Startup
\* (PlayerBundle::new, spawn_camera).
Spawn ==
    [ p_position   |-> ZERO,
      p_velocity   |-> Vec2(0, 2 * One),
      vis_shape    |-> PlayerShape,
      grounded     |-> FALSE,
      rotation     |-> 0,
      mesh         |-> PlayerShape,
      p_transform  |-> [translation |-> ZERO, angle |-> 0],
      cam_position |-> ZERO,
      cam_velocity |-> ZERO,
      cam_transform |-> [translation |-> ZERO, angle |-> 0] ]

\* ButtonInput<KeyCode> as control_player reads it.
Keys(d, a, jump) == [KeyD |-> d, KeyA |-> a, jump |-> jump]
NoKeys == Keys(FALSE, FALSE, FALSE)
AllInputs == { Keys(d, a, j) : d \in BOOLEAN, a \in BOOLEAN, j \in BOOLEAN }

\* ------------------------------------------------------------------ systems

\* fn gravitate: velocity += gravity for the one Gravitated entity, the player.
gravitate(w) ==
    [w EXCEPT !.p_velocity = VAdd(@, Vec2(0, GRAVITY))]

\* control_player: the target speed the held keys add up to.
TargetXSpeed(kb) ==
    (IF kb.KeyD THEN PLAYER_SPEED ELSE 0) + (IF kb.KeyA THEN -PLAYER_SPEED ELSE 0)

\* control_player: the blend factor, PLAYER_DECEL when the target is slower.
BlendFactor(target_x_speed, vx) ==
    IF Abs(target_x_speed) < Abs(vx) THEN PLAYER_DECEL ELSE PLAYER_ACCEL

\* fn control_player
control_player(w, kb) ==
    LET target_x_speed == TargetXSpeed(kb)
        vy == IF kb.jump THEN PLAYER_JUMP_STRENGTH ELSE w.p_velocity.y
        vis == IF kb.jump THEN Vec2(80 * One, 70 * One) ELSE w.vis_shape
        vx == flerp(w.p_velocity.x, target_x_speed,
                    BlendFactor(target_x_speed, w.p_velocity.x))
    IN  [w EXCEPT !.p_velocity = Vec2(vx, vy), !.vis_shape = vis]

\* fn move_bodies: position += velocity for the player and the camera
\* (blocks carry no Velocity).
move_bodies(w) ==
    [w EXCEPT !.p_position = VAdd(@, w.p_velocity),
              !.cam_position = VAdd(@, w.cam_velocity)]

\* fn camera_follow
camera_follow(w) ==
    LET direction == VSub(w.p_position, w.cam_position)
    IN  IF LengthExceeds(direction, CAMERA_DEADZONE)
          THEN [w EXCEPT !.cam_velocity =
                   Vec2Lerp(@, VScale(direction, CAMERA_DAMPING), CAMERA_BLEND)]
          ELSE [w EXCEPT !.cam_velocity = ZERO]

\* fn player_effects: the mesh takes the current VisShape, VisShape relaxes
\* toward Shape, Rotation leans with velocity.x / PLAYER_SPEED.
player_effects(w) ==
    [w EXCEPT !.mesh = w.vis_shape,
              !.vis_shape = vlerp(@, PlayerShape, SQUASH_SNAPPINESS),
              !.rotation = flerp(0, MAX_LEAN, Div(w.p_velocity.x, PLAYER_SPEED))]

\* fn project_transforms (the rotation about Z is kept as its angle).
project_transforms(w) ==
    [w EXCEPT !.p_transform = [translation |-> w.p_position, angle |-> w.rotation],
              !.cam_transform = [translation |-> w.cam_position, angle |-> 0]]

\* ------------------------------------------------------------------ handle_collisions

\* A variant of the landing test that ignores Grounded.
LandingAlways(grounded) == TRUE

\* handle_collisions, Bottom arm: `if !grounded.0` guards the landing effect.
LandingFires(grounded) == ~grounded

\* A variant of the match arms that stops the player but leaves it where it is.
ResolveVelocityOnly(acc, hit) ==
    LET landing == hit.side = "Bottom" /\ LandingFires(acc.grounded)
        stopped ==
          CASE hit.side \in {"Top", "Bottom"} ->
                 [acc EXCEPT !.p_velocity.y = 0,
                             !.vis_shape =
                                 IF landing THEN Vec2(80 * One, 80 * One) ELSE @,
                             !.landings = IF landing THEN @ + 1 ELSE @,
                             !.grounded = (hit.side = "Bottom") \/ @]
            [] hit.side \in {"Left", "Right"} ->
                 [acc EXCEPT !.p_velocity.x = 0]
    IN  [stopped EXCEPT !.collisions = Append(@, hit.side)]

\* handle_collisions: the match arm for one contact, then collisions.push.
Resolve(acc, hit) ==
    LET offset == hit.clip_amount
        landing == hit.side = "Bottom" /\ LandingFires(acc.grounded)
        pushed ==
          CASE hit.side = "Top" ->
                 [acc EXCEPT !.p_velocity.y = 0, !.p_position.y = @ - offset.y]
            [] hit.side = "Bottom" ->
                 [acc EXCEPT !.p_velocity.y = 0,
                             !.p_position.y =
                                 IF landing THEN (@ + offset.y) - LANDING_NUDGE
                                            ELSE @ + offset.y,
                             !.vis_shape =
                                 IF landing THEN Vec2(80 * One, 80 * One) ELSE @,
                             !.landings = IF landing THEN @ + 1 ELSE @,
                             !.grounded = TRUE]
            [] hit.side = "Left" ->
                 [acc EXCEPT !.p_velocity.x = 0, !.p_position.x = @ + offset.x]
            [] hit.side = "Right" ->
                 [acc EXCEPT !.p_velocity.x = 0, !.p_position.x = @ - offset.x]
    IN  [pushed EXCEPT !.collisions = Append(@, hit.side)]

\* A variant of the final test that keeps Grounded as the scan left it.
KeepGrounded(grounded, collisions) == grounded

\* handle_collisions: `if !collisions.contains(&Collision::Bottom)`.
GroundedAfterScan(grounded, collisions) ==
    IF \E i \in 1..Len(collisions) : collisions[i] = "Bottom"
      THEN grounded
      ELSE FALSE

\* handle_collisions: the loop over the colliders (the blocks spawn_world
\* created, in creation order), from collider i on.  Every
\* collider is tested against p_aabb, the box built once before the loop.
RECURSIVE Scan(_, _, _)
Scan(acc, p_aabb, i) ==
    IF i > Len(WorldData)
      THEN acc
      ELSE LET aabb == Aabb2dNew(WorldData[i].position, VHalf(WorldData[i].shape))
               hit == collide(p_aabb, aabb)
               logged == [acc EXCEPT !.tested =
                             Append(@, [at |-> acc.p_position,
                                        vis |-> acc.vis_shape, hit |-> hit])]
           IN  Scan(IF hit.side = "None" THEN logged ELSE Resolve(logged, hit),
                    p_aabb, i + 1)

\* fn handle_collisions, as the run's record: the player's components after
\* the run, the collisions Vec, and what the run did (landings: how often the
\* landing effect fired; tested: per collider, the position and VisShape it
\* met and the result of collide; p_aabb: the box of the run; entry: the
\* components the run started from).
RunCollisions(w) ==
    LET p_aabb == Aabb2dNew(w.p_position, VHalf(w.vis_shape))
        start == [ p_position |-> w.p_position, p_velocity |-> w.p_velocity,
                   vis_shape |-> w.vis_shape, grounded |-> w.grounded,
                   collisions |-> << >>, landings |-> 0, tested |-> << >> ]
        scanned == Scan(start, p_aabb, 1)
    IN  [ p_position |-> scanned.p_position,
          p_velocity |-> scanned.p_velocity,
          vis_shape  |-> scanned.vis_shape,
          grounded   |-> GroundedAfterScan(scanned.grounded, scanned.collisions),
          collisions |-> scanned.collisions,
          landings   |-> scanned.landings,
          tested     |-> scanned.tested,
          p_aabb     |-> p_aabb,
          entry      |-> [p_position |-> w.p_position, p_velocity |-> w.p_velocity,
                          vis_shape |-> w.vis_shape, grounded |-> w.grounded] ]

\* fn handle_collisions, on the world.
handle_collisions(w) ==
    LET r == RunCollisions(w)
    IN  [w EXCEPT !.p_position = r.p_position, !.p_velocity = r.p_velocity,
                  !.vis_shape = r.vis_shape, !.grounded = r.grounded]

\* The record of a run that has not happened.
NoRun ==
    [ p_position |-> ZERO, p_velocity |-> ZERO, vis_shape |-> ZERO,
      grounded |-> FALSE, collisions |-> << >>, landings |-> 0,
      tested |-> << >>, p_aabb |-> Aabb2dNew(ZERO, ZERO),
      entry |-> [p_position |-> ZERO, p_velocity |-> ZERO,
                 vis_shape |-> ZERO, grounded |-> FALSE] ]

\* ------------------------------------------------------------------ schedule

Systems ==
    { "control_player", "gravitate", "move_bodies", "handle_collisions",
      "camera_follow", "player_effects", "project_transforms" }

\* A variant of the constraints without `.after(control_player)`.
OrderedBeforeUnanchored ==
    { <<"gravitate", "move_bodies">>, <<"move_bodies", "handle_collisions">>,
      <<"move_bodies", "camera_follow">> }
    \cup { <<s, "project_transforms">> : s \in Systems \ {"project_transforms"} }

\* UpdatePlugin::build: the pairs <<a, b>> with a ordered before b.
\*   (gravitate, move_bodies, handle_collisions).chain()
\*   ....after(control_player), on each of the three
\*   camera_follow.after(move_bodies)
\*   (( ... ), project_transforms).chain()
\* player_effects is ordered against project_transforms only.
OrderedBefore ==
    { <<"gravitate", "move_bodies">>, <<"move_bodies", "handle_collisions">> }
    \cup { <<"control_player", s>> :
              s \in {"gravitate", "move_bodies", "handle_collisions"} }
    \cup { <<"move_bodies", "camera_follow">> }
    \cup { <<s, "project_transforms">> : s \in Systems \ {"project_transforms"} }

Range(seq) == { seq[i] : i \in 1..Len(seq) }

\* One FixedUpdate with the systems in an order the constraints admit:
\* control_player, gravitate, move_bodies, handle_collisions, camera_follow,
\* player_effects, project_transforms.
CanonicalTick(w, kb) ==
    project_transforms(player_effects(camera_follow(
        handle_collisions(move_bodies(gravitate(control_player(w, kb)))))))

\* n ticks in that order under the same keys; each tick's world is computed
\* before the next tick starts from it.
RECURSIVE CanonicalRun(_, _, _)
CanonicalRun(w, kb, n) ==
    IF n = 0
      THEN w
      ELSE CHOOSE last \in { CanonicalRun(next, kb, n - 1) :
                                next \in { CanonicalTick(w, kb) } } : TRUE

\* ------------------------------------------------------------------ state

VARIABLES
    world,      \* the components of the Player and Camera entities
    kb_input,   \* ButtonInput<KeyCode> as this tick's systems read it
    ran,        \* the systems that have run in this tick, in the order they ran
    tick,       \* ticks begun (collision passes made, when a pass runs alone)
    last_run,   \* the record of the last handle_collisions run
    shadow,     \* the world as the same inputs leave it under CanonicalTick
    probe       \* a pair of boxes and what collide returns on it

vars == << world, kb_input, ran, tick, last_run, shadow, probe >>

\* Bounds of the exploration.
MaxTicks == 2
MaxRestTicks == 6
MaxPasses == 2

NoProbe == [body1 |-> Aabb2dNew(ZERO, ZERO), body2 |-> Aabb2dNew(ZERO, ZERO),
            hit |-> NoContact, mirrored |-> NoContact, done |-> FALSE]

\* States of a run from Spawn with the systems in the canonical order:
\* no key for 57 ticks (the tick before the player reaches the floor), no key
\* for 60 ticks (landed), then KeyD held for 49 ticks (the tick before the
\* player reaches the second block), and KeyD held from Spawn on.
Falling == CanonicalRun(Spawn, NoKeys, 57)
Landed == CanonicalRun(Spawn, NoKeys, 60)
Walking == CanonicalRun(Landed, Keys(TRUE, FALSE, FALSE), 49)
Running == CanonicalRun(Spawn, Keys(TRUE, FALSE, FALSE), 52)
StartStates == { Spawn, Falling, Landed, Walking, Running }

TickInit(starts) ==
    /\ world \in starts
    /\ shadow = world
    /\ kb_input = NoKeys
    /\ ran = << >>
    /\ tick = 0
    /\ last_run = NoRun
    /\ probe = NoProbe

Init == TickInit(StartStates)

\* ------------------------------------------------------------------ actions

\* The FixedUpdate schedule starts a tick: the systems of the tick read the
\* keys as they are now.
BeginTick(inputs, limit) ==
    /\ tick = 0 \/ Len(ran) = Cardinality(Systems)
    /\ tick < limit
    /\ kb_input' \in inputs
    /\ ran' = << >>
    /\ tick' = tick + 1
    /\ UNCHANGED << world, last_run, shadow, probe >>

FixedUpdate == BeginTick(AllInputs, MaxTicks)

\* The executor runs a system once per tick, after the systems ordered before it.
CanRun(s) ==
    /\ tick > 0
    /\ s \notin Range(ran)
    /\ \A p \in OrderedBefore : p[2] = s => p[1] \in Range(ran)

ControlPlayer ==
    /\ CanRun("control_player")
    /\ world' = control_player(world, kb_input)
    /\ ran' = Append(ran, "control_player")
    /\ UNCHANGED << kb_input, tick, last_run, shadow, probe >>

Gravitate ==
    /\ CanRun("gravitate")
    /\ world' = gravitate(world)
    /\ ran' = Append(ran, "gravitate")
    /\ UNCHANGED << kb_input, tick, last_run, shadow, probe >>

MoveBodies ==
    /\ CanRun("move_bodies")
    /\ world' = move_bodies(world)
    /\ ran' = Append(ran, "move_bodies")
    /\ UNCHANGED << kb_input, tick, last_run, shadow, probe >>

HandleCollisions ==
    /\ CanRun("handle_collisions")
    /\ world' = handle_collisions(world)
    /\ last_run' = RunCollisions(world)
    /\ ran' = Append(ran, "handle_collisions")
    /\ UNCHANGED << kb_input, tick, shadow, probe >>

CameraFollow ==
    /\ CanRun("camera_follow")
    /\ world' = camera_follow(world)
    /\ ran' = Append(ran, "camera_follow")
    /\ UNCHANGED << kb_input, tick, last_run, shadow, probe >>

PlayerEffects ==
    /\ CanRun("player_effects")
    /\ world' = player_effects(world)
    /\ ran' = Append(ran, "player_effects")
    /\ UNCHANGED << kb_input, tick, last_run, shadow, probe >>

ProjectTransforms ==
    /\ CanRun("project_transforms")
    /\ world' = project_transforms(world)
    /\ shadow' = CanonicalTick(shadow, kb_input)
    /\ ran' = Append(ran, "project_transforms")
    /\ UNCHANGED << kb_input, tick, last_run, probe >>

Next ==
    \/ FixedUpdate
    \/ ControlPlayer
    \/ Gravitate
    \/ MoveBodies
    \/ HandleCollisions
    \/ CameraFollow
    \/ PlayerEffects
    \/ ProjectTransforms

\* The simulation under every key sequence and every admitted system order.
Spec == Init /\ [][Next]_vars

\* ------------------------------------------------------------------ claims: schedule

Ran(s) == s \in Range(ran)
Pos(s) == CHOOSE i \in 1..Len(ran) : ran[i] = s
TickDone == Len(ran) = Cardinality(Systems)

\* The order of section 5 of the specification.
StrictOrder ==
    << "gravitate", "control_player", "move_bodies", "handle_collisions",
       "camera_follow", "player_effects", "project_transforms" >>

Precedes(a, b) == Ran(b) => (Ran(a) /\ Pos(a) < Pos(b))

C6_Deterministic ==
    TickDone =>
        /\ world.p_position = shadow.p_position
        /\ world.cam_position = shadow.cam_position

\* ------------------------------------------------------------------ claims: speed

OnlyKeyD == Keys(TRUE, FALSE, FALSE)

SpeedWithinCap(w) ==
    /\ Abs(w.p_velocity.x) <= PLAYER_SPEED
    /\ Abs(w.rotation) <= Abs(MAX_LEAN)

HorizontalContact(run) ==
    \E i \in 1..Len(run.collisions) : run.collisions[i] \in {"Left", "Right"}

\* C9: |velocity.x| never exceeds PLAYER_SPEED and the lean angle stays within
\* [-0.3, 0.3]; a control_player run with only move-right held takes
\* velocity.x to velocity.x + 0.05 * (5 - velocity.x), which is no less than
\* before; and besides control_player only a handle_collisions run with a
\* Left or Right contact changes velocity.x (to 0).
C9_SpeedCap ==
    [][ /\ SpeedWithinCap(world)
        /\ SpeedWithinCap(world')
        /\ (ran' = Append(ran, "control_player") /\ kb_input = OnlyKeyD) =>
              /\ world'.p_velocity.x =
                   world.p_velocity.x
                     + RoundDiv(PLAYER_ACCEL * (PLAYER_SPEED - world.p_velocity.x), One)
              /\ world'.p_velocity.x >= world.p_velocity.x
        /\ (ran' # Append(ran, "control_player")
              /\ world'.p_velocity.x # world.p_velocity.x) =>
              /\ ran' = Append(ran, "handle_collisions")
              /\ HorizontalContact(last_run')
              /\ world'.p_velocity.x = 0
      ]_vars

\* C9 witness: control_player has run with only move-right held and the
\* speed is within a tenth of the cap's last 7 percent.
C9_Witness ==
    /\ Ran("control_player")
    /\ ~Ran("gravitate")
    /\ kb_input = OnlyKeyD
    /\ world.p_velocity.x > 4680
    /\ world.p_velocity.x < PLAYER_SPEED

\* ------------------------------------------------------------------ a tick without keys

QuietUpdate == BeginTick({NoKeys}, MaxRestTicks)

\* States of the canonical run from Spawn without keys: the tick before the
\* landing, 100 and 200 ticks in; and the tick before the landing that
\* follows a jump from the floor.
Settling == CanonicalRun(Landed, NoKeys, 40)
HalfSettled == CanonicalRun(Settling, NoKeys, 50)
Settled == CanonicalRun(HalfSettled, NoKeys, 50)
Jumped == CanonicalRun(CanonicalTick(Landed, Keys(FALSE, FALSE, TRUE)), NoKeys, 38)
JumpFalling == CanonicalRun(Jumped, NoKeys, 38)
RestStartStates == { Falling, JumpFalling, Settling, Settled }

RestInit == TickInit(RestStartStates)

RestNext ==
    \/ QuietUpdate
    \/ ControlPlayer
    \/ Gravitate
    \/ MoveBodies
    \/ HandleCollisions
    \/ CameraFollow
    \/ PlayerEffects
    \/ ProjectTransforms

\* The simulation with no key ever held, under every admitted system order.
SpecRest == RestInit /\ [][RestNext]_vars

\* ------------------------------------------------------------------ claims: resting

ColliderBox(i) == Aabb2dNew(WorldData[i].position, VHalf(WorldData[i].shape))
PlayerBox(w) == Aabb2dNew(w.p_position, VHalf(w.vis_shape))
Colliders == 1..Len(WorldData)

\* Before a handle_collisions run: the last tick ended grounded from a Bottom
\* contact on collider i alone, the player's center is within i's horizontal
\* extent, no key is down, velocity.x is 0 and no other collider touches the
\* player.
RestingOn(i) ==
    /\ world.grounded
    /\ Len(last_run.tested) = Len(WorldData)
    /\ last_run.tested[i].hit.side = "Bottom"
    /\ ColliderBox(i).min.x <= world.p_position.x
    /\ world.p_position.x <= ColliderBox(i).max.x
    /\ kb_input = NoKeys
    /\ world.p_velocity.x = 0
    /\ \A j \in Colliders \ {i} : ~Intersects(PlayerBox(world), ColliderBox(j))

\* After the run: the contact with i is Bottom again and the only contact,
\* Grounded is true, the landing effect has not fired (VisShape is what the
\* run started with), and the bottom edge of the box the run resolved is on
\* i's top face.
StaysOn(i) ==
    /\ last_run.tested[i].hit.side = "Bottom"
    /\ last_run.collisions = << "Bottom" >>
    /\ world.grounded
    /\ last_run.landings = 0
    /\ world.vis_shape = last_run.entry.vis_shape
    /\ world.p_position.y - HalfSize(last_run.p_aabb).y = ColliderBox(i).max.y

GridX == { 10 * k * One : k \in -25..30 }
GridY == { 5 * k * One : k \in -77..-33 }
VisShapes == { PlayerShape, Vec2(80 * One, 80 * One), Vec2(80 * One, 70 * One) }

Placed(x, y, vis, g) ==
    [Spawn EXCEPT !.p_position = Vec2(x, y), !.p_velocity = Vec2(3 * One, -4 * One),
                  !.vis_shape = vis, !.grounded = g]

ResolveInit ==
    /\ world \in { Placed(x, y, vis, g) :
                     x \in GridX, y \in GridY, vis \in VisShapes, g \in BOOLEAN }
    /\ shadow = Spawn
    /\ kb_input = NoKeys
    /\ ran = << >>
    /\ tick = 0
    /\ last_run = NoRun
    /\ probe = NoProbe

\* One run of handle_collisions.
CollisionPass ==
    /\ tick < MaxPasses
    /\ world' = handle_collisions(world)
    /\ last_run' = RunCollisions(world)
    /\ tick' = tick + 1
    /\ UNCHANGED << kb_input, ran, shadow, probe >>

\* handle_collisions run on any placement, and run again on what it left.
SpecResolve == ResolveInit /\ [][CollisionPass]_vars

\* ------------------------------------------------------------------ claims: the pass

HasBottom(run) == \E k \in 1..Len(run.collisions) : run.collisions[k] = "Bottom"
BottomCount(run) == Cardinality({ k \in 1..Len(run.collisions) : run.collisions[k] = "Bottom" })

\* C1: after a handle_collisions run Grounded is true iff the run produced a
\* Bottom contact, whatever Grounded was before the run.
C1_GroundedIffBottom == tick > 0 => (world.grounded <=> HasBottom(last_run))

\* C1 witness: a run that started with Grounded true, produced a contact but
\* no Bottom contact, and left Grounded false.
C1_Witness ==
    /\ tick > 0
    /\ last_run.entry.grounded
    /\ Len(last_run.collisions) > 0
    /\ ~HasBottom(last_run)
    /\ ~world.grounded

\* The vertical corrections of a run: + pushout.y per Bottom, - pushout.y per Top.
RECURSIVE VerticalPush(_, _)
VerticalPush(tested, k) ==
    IF k = 0 THEN 0
    ELSE VerticalPush(tested, k - 1)
           + (CASE tested[k].hit.side = "Bottom" -> tested[k].hit.clip_amount.y
                [] tested[k].hit.side = "Top" -> -tested[k].hit.clip_amount.y
                [] OTHER -> 0)

\* C2: the landing effect fires exactly once in a run that starts with
\* Grounded false and finds a Bottom contact (VisShape becomes (80,80) and
\* position.y ends 10 below where the run's corrections alone put it, however
\* many colliders gave a Bottom contact), and not at all in any other run
\* (VisShape is untouched and position.y is where the corrections put it).
C2_LandingOnce ==
    tick > 0 =>
      LET run == last_run
          corrected == run.entry.p_position.y + VerticalPush(run.tested, Len(run.tested))
      IN  IF ~run.entry.grounded /\ HasBottom(run)
            THEN /\ run.landings = 1
                 /\ world.vis_shape = Vec2(80 * One, 80 * One)
                 /\ world.p_position.y = corrected - LANDING_NUDGE
            ELSE /\ run.landings = 0
                 /\ world.vis_shape = run.entry.vis_shape
                 /\ world.p_position.y = corrected

\* C2 witness: a run that started with Grounded false, found a Bottom contact
\* on both blocks, and fired the landing effect once.
C2_Witness ==
    /\ tick > 0
    /\ ~last_run.entry.grounded
    /\ BottomCount(last_run) = 2
    /\ last_run.landings = 1

\* C8 as stated: each collider is tested, and its pushout computed, against
\* the player's box as the corrections of the colliders before it have moved
\* it (with the size the run started with, or with VisShape as it then is).
C8_TestedAgainstMovedBox ==
    tick > 0 =>
      \A i \in 1..Len(last_run.tested) :
        LET t == last_run.tested[i]
        IN  \/ t.hit = collide(Aabb2dNew(t.at, HalfSize(last_run.p_aabb)), ColliderBox(i))
            \/ t.hit = collide(Aabb2dNew(t.at, VHalf(t.vis)), ColliderBox(i))

\* Two boxes that touch with zero overlap: their extents meet on both axes
\* and two facing edges coincide.
Tangent(a, b) ==
    /\ a.min.x <= b.max.x /\ b.min.x <= a.max.x
    /\ a.min.y <= b.max.y /\ b.min.y <= a.max.y
    /\ \/ a.min.x = b.max.x \/ a.max.x = b.min.x
       \/ a.min.y = b.max.y \/ a.max.y = b.min.y

\* The pushout of a contact along the axis its side resolves.
AxisPushout(hit) ==
    IF hit.side \in {"Top", "Bottom"} THEN hit.clip_amount.y ELSE hit.clip_amount.x

\* C4 as stated: on a pair that is already tangent collide returns None.
C4_TangentGivesNone ==
    tick > 0 =>
      \A i \in Colliders :
        Tangent(last_run.p_aabb, ColliderBox(i)) => last_run.tested[i].hit.side = "None"

\* The player touches collider i with zero overlap and no other collider, and
\* the pass before corrected it against i and no other.
LeftTangentTo(i) ==
    /\ tick > 0
    /\ last_run.tested[i].hit.side # "None"
    /\ \A j \in Colliders \ {i} : last_run.tested[j].hit.side = "None"
    /\ Tangent(PlayerBox(world), ColliderBox(i))
    /\ \A j \in Colliders \ {i} : ~Intersects(PlayerBox(world), ColliderBox(j))

\* C4 amended: on a tangent pair collide returns a contact, not None, with a
\* pushout of zero along the axis it resolves; so a second pass over the pair
\* a correction left tangent never moves the player, and changes nothing at
\* all (position, velocity, Grounded, VisShape) when the pass before did not
\* fire the landing effect.
C4_TangentZeroPushout ==
    [][ (tick' = tick + 1) =>
          /\ \A i \in Colliders :
                Tangent(last_run'.p_aabb, ColliderBox(i)) =>
                   /\ last_run'.tested[i].hit.side # "None"
                   /\ AxisPushout(last_run'.tested[i].hit) = 0
          /\ \A i \in Colliders :
                LeftTangentTo(i) =>
                   /\ world'.p_position = world.p_position
                   /\ last_run.landings = 0 => world' = world
      ]_vars

\* C4 witness: a second pass has run on a pair the first pass left tangent;
\* it found the Bottom contact again, with zero pushout, and nothing moved.
C4_Witness ==
    /\ tick = 2
    /\ Tangent(last_run.p_aabb, ColliderBox(1))
    /\ last_run.tested[1].hit.side = "Bottom"
    /\ last_run.tested[2].hit.side = "None"
    /\ last_run.entry.p_position = world.p_position
    /\ last_run.entry.p_velocity = Vec2(3 * One, 0)
    /\ world.p_velocity = Vec2(3 * One, 0)

\* ------------------------------------------------------------------ collide alone

\* The box mirrored in the y axis: the x-coordinates negated.
MirrorX(b) == [min |-> Vec2(-b.max.x, b.min.y), max |-> Vec2(-b.min.x, b.max.y)]

MirrorSide(side) ==
    CASE side = "Left" -> "Right"
      [] side = "Right" -> "Left"
      [] OTHER -> side

\* Pairs of boxes: a moving box of one of the player's sizes, centered on the
\* grid, against a static box: one of the two blocks or its mirror image.
StaticBoxes ==
    { ColliderBox(i) : i \in Colliders } \cup { MirrorX(ColliderBox(i)) : i \in Colliders }
MirrorGridX == GridX \cup { -x : x \in GridX }

CollideInit ==
    /\ probe \in { [ body1 |-> Aabb2dNew(Vec2(x, y), VHalf(vis)), body2 |-> b,
                     hit |-> NoContact, mirrored |-> NoContact, done |-> FALSE ] :
                   x \in MirrorGridX, y \in GridY, vis \in VisShapes, b \in StaticBoxes }
    /\ world = Spawn
    /\ shadow = Spawn
    /\ kb_input = NoKeys
    /\ ran = << >>
    /\ tick = 0
    /\ last_run = NoRun

\* collide on the pair, and on the pair mirrored.
CollidePair ==
    /\ ~probe.done
    /\ probe' = [probe EXCEPT !.hit = collide(probe.body1, probe.body2),
                              !.mirrored = collide(MirrorX(probe.body1), MirrorX(probe.body2)),
                              !.done = TRUE]
    /\ UNCHANGED << world, kb_input, ran, tick, last_run, shadow >>

\* collide on any pair of boxes.
SpecCollide == CollideInit /\ [][CollidePair]_vars

\* ------------------------------------------------------------------ claims: collide

\* The moving box after the correction handle_collisions applies for the side.
Corrected(body1, hit) ==
    LET c == Center(body1)
        to == CASE hit.side = "Top" -> Vec2(c.x, c.y - hit.clip_amount.y)
                [] hit.side = "Bottom" -> Vec2(c.x, c.y + hit.clip_amount.y)
                [] hit.side = "Left" -> Vec2(c.x + hit.clip_amount.x, c.y)
                [] hit.side = "Right" -> Vec2(c.x - hit.clip_amount.x, c.y)
    IN  Aabb2dNew(to, HalfSize(body1))

\* The facing edges of the two boxes coincide on the axis the side resolves.
EdgesMeet(moved, body2, side) ==
    CASE side = "Top" -> moved.max.y = body2.min.y
      [] side = "Bottom" -> moved.min.y = body2.max.y
      [] side = "Left" -> moved.min.x = body2.max.x
      [] side = "Right" -> moved.max.x = body2.min.x

\* C3 as stated: for every pair of overlapping boxes, the correction for the
\* side collide returns leaves the boxes exactly tangent along the resolved
\* axis.
C3_PushoutLeavesTangent ==
    (probe.done /\ probe.hit.side # "None") =>
        EdgesMeet(Corrected(probe.body1, probe.hit), probe.body2, probe.hit.side)

\* C5 as stated: negating the x-coordinates of both boxes turns Left into
\* Right and Right into Left and leaves Top, Bottom and None as they are.
C5_MirrorSymmetric ==
    probe.done => probe.mirrored.side = MirrorSide(probe.hit.side)

====
